---- MODULE Spec2Model ----
(***************************************************************************)
(* Model of the LiveKit voice agent: the MetricsCollector session store    *)
(* (utils/metrics.py), the LLM and TTS service wrappers, and the VoiceAgent *)
(* turn pipeline (agent.py) as cooperative asyncio tasks.                   *)
(*                                                                         *)
(* Time is the integer clock `now` (time.time() in whole ticks).  The      *)
(* asyncio event loop is modelled by `running`: a task that has resumed    *)
(* from an await keeps the loop until its next await, so the steps between *)
(* two awaits can not interleave with another task.  The clock and the     *)
(* transport are the environment and may move at any time.                 *)
(***************************************************************************)
EXTENDS Integers, Sequences, FiniteSets, TLC

(* ------------------------------ bounds --------------------------------- *)
MaxTime == 1
MaxFrames == 2
MaxStreams == 2
MaxCalls == 4
MaxSample == 1
MaxAgents == 3
MaxLen == 3
MantissaBits == 6
MaxRecords == 4
MaxRequests == 3
MaxPolls == 2

(* ------------------------------ values --------------------------------- *)
NoTime == -1
NoTask == -1
Welcome == 0
StreamTasks == 1..MaxStreams
Speakers == {Welcome} \cup StreamTasks
SessionIds == 0..MaxTime
SampleValues == 0..MaxSample

NoneText == <<"None">>
WelcomeText == <<"h", "e", "l", "l", "o">>
FallbackText == <<"s", "o", "r", "r", "y">>
ReplyText == <<"o", "k">>
RawTranscripts == {NoneText, <<>>, <<" ">>, <<" ", "h", "i">>, <<"h", "i">>}
LLMOutcomes == {"ok", "empty", "nochoices", "raise"}
TTSOutcomes == {"audio", "nobytes", "fail"}

Truthy_notNone(x) == x # NoneText

Truthy(x) == x # NoneText /\ Len(x) > 0

RECURSIVE LStrip(_)
LStrip(s) == IF Len(s) > 0 /\ Head(s) = " " THEN LStrip(Tail(s)) ELSE s

RECURSIVE RStrip(_)
RStrip(s) == IF Len(s) > 0 /\ s[Len(s)] = " " THEN RStrip(SubSeq(s, 1, Len(s) - 1)) ELSE s

Strip(s) == RStrip(LStrip(s))

(* ------------------------ utils/metrics.py ----------------------------- *)
SessionMetrics_oneturn(id, t) ==
    [session_id |-> id, start_time |-> t, end_time |-> NoTime,
     eou_delays |-> <<>>, ttft_times |-> <<>>, ttfb_times |-> <<>>,
     total_latencies |-> <<>>, conversation_turns |-> 1, interruptions |-> 0]

SessionMetrics(id, t) ==
    [session_id |-> id, start_time |-> t, end_time |-> NoTime,
     eou_delays |-> <<>>, ttft_times |-> <<>>, ttfb_times |-> <<>>,
     total_latencies |-> <<>>, conversation_turns |-> 0, interruptions |-> 0]

start_session(S, id, t) ==
    [x \in (DOMAIN S) \cup {id} |-> IF x = id THEN SessionMetrics(id, t) ELSE S[x]]

start_session_ret(S, id) == "None"

end_session(S, id, t) ==
    IF id \in DOMAIN S THEN [S EXCEPT ![id].end_time = t] ELSE S

end_session_ret(S, id) == IF id \in DOMAIN S THEN "Session" ELSE "None"

record_eou_delay_autocreate(S, id, v) ==
    LET T == IF id \in DOMAIN S THEN S ELSE start_session(S, id, 0)
    IN  [T EXCEPT ![id].eou_delays = Append(@, v)]

record_eou_delay(S, id, v) ==
    IF id \in DOMAIN S THEN [S EXCEPT ![id].eou_delays = Append(@, v)] ELSE S

record_ttft_noturn(S, id, v) ==
    IF id \in DOMAIN S THEN [S EXCEPT ![id].ttft_times = Append(@, v)] ELSE S

record_ttft(S, id, v) ==
    IF id \in DOMAIN S
    THEN [S EXCEPT ![id].ttft_times = Append(@, v),
                   ![id].conversation_turns = @ + 1]
    ELSE S

record_ttfb_as_total(S, id, v) ==
    IF id \in DOMAIN S THEN [S EXCEPT ![id].total_latencies = Append(@, v)] ELSE S

record_ttfb(S, id, v) ==
    IF id \in DOMAIN S THEN [S EXCEPT ![id].ttfb_times = Append(@, v)] ELSE S

record_total_latency_dropped(S, id, v) == S

record_total_latency(S, id, v) ==
    IF id \in DOMAIN S THEN [S EXCEPT ![id].total_latencies = Append(@, v)] ELSE S

record_interruption(S, id) ==
    IF id \in DOMAIN S THEN [S EXCEPT ![id].interruptions = @ + 1] ELSE S

(* --------------------- services/llm_service.py ------------------------- *)
\* generate_response: the user entry is appended first; the API call either
\* returns content, returns no choices, or raises.  The except clause turns a
\* raise into the fallback sentence.
generate_response_nofallback(history, user_input, api) ==
    LET h1 == Append(history, [role |-> "user", content |-> user_input])
    IN  CASE api = "ok" ->
               [ret |-> ReplyText,
                history |-> Append(h1, [role |-> "assistant", content |-> ReplyText])]
          [] api = "empty" ->
               [ret |-> <<>>,
                history |-> Append(h1, [role |-> "assistant", content |-> <<>>])]
          [] api = "nochoices" -> [ret |-> NoneText, history |-> h1]
          [] OTHER -> [ret |-> NoneText, history |-> h1]

generate_response(history, user_input, api) ==
    LET h1 == Append(history, [role |-> "user", content |-> user_input])
    IN  CASE api = "ok" ->
               [ret |-> ReplyText,
                history |-> Append(h1, [role |-> "assistant", content |-> ReplyText])]
          [] api = "empty" ->
               [ret |-> <<>>,
                history |-> Append(h1, [role |-> "assistant", content |-> <<>>])]
          [] api = "nochoices" -> [ret |-> NoneText, history |-> h1]
          [] OTHER -> [ret |-> FallbackText, history |-> h1]

(* --------------------- services/tts_service.py ------------------------- *)
\* generate_audio: bytes on success (possibly none at all), None when the
\* ElevenLabs call raises.
generate_audio(out) ==
    CASE out = "audio" -> <<"b">>
      [] out = "nobytes" -> <<>>
      [] OTHER -> NoneText

(* --------------------- services/stt_service.py ------------------------- *)
\* transcribe_audio: the polled transcript is returned stripped when it is
\* non-blank; otherwise polling runs into the timeout and None is returned.
transcribe_audio(raw) ==
    IF Truthy(raw) /\ Truthy(Strip(raw)) THEN Strip(raw) ELSE NoneText

(* ------------------------------ state ---------------------------------- *)
VARIABLES
    now,                 \* time.time()
    sessions,            \* MetricsCollector.sessions
    returned,            \* id -> value of the object end_session last returned
    lastCall,            \* last MetricsCollector API call and its result
    calls,               \* number of API calls made by the collector client
    session_id,          \* VoiceAgent.session_id
    connected,           \* room.connection_state == CONN_CONNECTED
    conversation_active, \* VoiceAgent.conversation_active
    is_speaking,         \* VoiceAgent.is_speaking
    interrupt_requested, \* VoiceAgent.interrupt_requested
    conversation_history,\* LLMService.conversation_history
    mainpc,              \* position of VoiceAgent.start
    pc,                  \* position of the welcome task and of each stream task
    running,             \* task holding the event loop
    local,               \* per task locals: start times, transcript, text
    frames,              \* audio frames delivered so far
    exports,             \* calls of ExcelLogger.export_session_metrics
    turn,                \* per task: what happened in its current utterance
    agents,              \* per job of the worker: its VoiceAgent's position and session_id
    samples,             \* a sequence of timing samples handed to the statistics
    report,              \* the statistics computed from `samples`
    recorded,            \* per metric, the values a client passed to record calls
    stt_service          \* STTService: latest_transcript and its transcribe_audio calls

vars == <<now, sessions, returned, lastCall, calls, session_id, connected,
          conversation_active, is_speaking, interrupt_requested,
          conversation_history, mainpc, pc, running, local, frames, exports, turn,
          agents, samples, report, recorded, stt_service>>

collectorVars == <<sessions, returned, lastCall, calls>>
agentVars == <<session_id, connected, conversation_active, is_speaking,
               interrupt_requested, conversation_history, mainpc, pc, running,
               local, frames, exports, turn>>

restVars == <<agents, samples, report, recorded, stt_service>>

NoId == -1

Agents == 1..MaxAgents

NoReport == [kind |-> "none"]

NoneRecorded == [eou |-> <<>>, ttft |-> <<>>, ttfb |-> <<>>, total |-> <<>>]

Requests == 1..MaxRequests

\* A transcript event of the transcription capability: the request whose audio
\* produced it and its text.  `of = 0` stands for None.
NoTranscript == [of |-> 0, text |-> NoneText]

\* STTService before any call: no latest_transcript, no request sent.
FreshSTT ==
    [latest_transcript |-> NoTranscript,
     req |-> [r \in Requests |-> "new"],
     waited |-> [r \in Requests |-> 0],
     result |-> [r \in Requests |-> NoTranscript],
     delivered |-> {},
     overwritten |-> {}]

ZeroDelta == [eou |-> 0, ttft |-> 0, ttfb |-> 0, total |-> 0, turns |-> 0, intr |-> 0]

FreshTurn == [heard |-> FALSE, stt |-> "", llm |-> "", tts |-> "",
              abandoned |-> FALSE, after_failure |-> FALSE, d |-> ZeroDelta]

\* A transcription result that carries no speech: none at all (timeout), empty
\* or only blanks.
IsBlank(raw) == raw = NoneText \/ \A i \in 1..Len(raw) : raw[i] = " "

\* The utterance ran into a failure or an empty result of a capability.
Failed(u) ==
    \/ u.stt = "blank"
    \/ u.llm \in {"raise", "nochoices", "empty"}
    \/ u.tts \in {"fail", "nobytes"}

FreshLocal == [eou_start_time |-> NoTime, ttft_start_time |-> NoTime,
               ttfb_start_time |-> NoTime, transcript |-> NoneText,
               text |-> NoneText]

\* What one step added to the session `id`: sample counts and counters.
Delta(S, T, id) ==
    IF id \in DOMAIN S /\ id \in DOMAIN T
    THEN [eou   |-> Len(T[id].eou_delays) - Len(S[id].eou_delays),
          ttft  |-> Len(T[id].ttft_times) - Len(S[id].ttft_times),
          ttfb  |-> Len(T[id].ttfb_times) - Len(S[id].ttfb_times),
          total |-> Len(T[id].total_latencies) - Len(S[id].total_latencies),
          turns |-> T[id].conversation_turns - S[id].conversation_turns,
          intr  |-> T[id].interruptions - S[id].interruptions]
    ELSE ZeroDelta

AddDelta(d, e) ==
    [eou |-> d.eou + e.eou, ttft |-> d.ttft + e.ttft, ttfb |-> d.ttfb + e.ttfb,
     total |-> d.total + e.total, turns |-> d.turns + e.turns, intr |-> d.intr + e.intr]

InitAgent ==
    /\ now = 0
    /\ sessions = <<>>
    /\ returned = <<>>
    /\ lastCall = [op |-> "none", id |-> NoId, ret |-> "None"]
    /\ calls = 0
    /\ session_id = NoId
    /\ connected = TRUE
    /\ conversation_active = FALSE
    /\ is_speaking = FALSE
    /\ interrupt_requested = FALSE
    /\ conversation_history = <<>>
    /\ mainpc = "init"
    /\ pc = [t \in Speakers |-> IF t = Welcome THEN "idle" ELSE "off"]
    /\ running = NoTask
    /\ local = [t \in Speakers |-> FreshLocal]
    /\ frames = 0
    /\ exports = 0
    /\ turn = [t \in Speakers |-> FreshTurn]
    /\ agents = [a \in Agents |-> [st |-> "new", session_id |-> NoId]]
    /\ recorded = NoneRecorded
    /\ stt_service = FreshSTT

Init ==
    /\ InitAgent
    /\ samples = <<>>
    /\ report = NoReport

(* --------------------------- environment ------------------------------- *)
Tick ==
    /\ now < MaxTime
    /\ now' = now + 1
    /\ UNCHANGED <<restVars, collectorVars, agentVars>>

RoomDisconnected ==
    /\ connected
    /\ connected' = FALSE
    /\ UNCHANGED <<restVars, now, collectorVars, session_id, conversation_active, is_speaking,
                   interrupt_requested, conversation_history, mainpc, pc, running,
                   local, frames, exports, turn>>

(* ------------------------------ agent.py ------------------------------- *)
Sample(start) == now - start

\* VoiceAgent.start up to its first await: the session id is derived from the
\* clock, the handlers are registered and the session is registered.
Start ==
    /\ mainpc = "init"
    /\ running = NoTask
    /\ session_id' = now
    /\ sessions' = start_session(sessions, now, now)
    /\ returned' = [x \in (DOMAIN returned) \ {now} |-> returned[x]]
    /\ mainpc' = "wait"
    /\ UNCHANGED <<restVars, now, lastCall, calls, connected, conversation_active, is_speaking,
                   interrupt_requested, conversation_history, pc, running, local,
                   frames, exports, turn>>

\* _cleanup_session: the number of export_session_metrics calls it makes for
\* what end_session returned (a SessionMetrics object is always truthy).
export_calls_never(ret) == 0

export_calls(ret) == IF ret = "Session" THEN 1 ELSE 0

\* _wait_for_session_end leaves its loop once the room is no longer connected;
\* _cleanup_session ends the session and exports what end_session returned.
CleanupSession ==
    /\ mainpc = "wait"
    /\ running = NoTask
    /\ ~connected
    /\ sessions' = end_session(sessions, session_id, now)
    /\ returned' = IF end_session_ret(sessions, session_id) = "Session"
                   THEN [x \in (DOMAIN returned) \cup {session_id} |->
                            IF x = session_id THEN sessions'[session_id] ELSE returned[x]]
                   ELSE returned
    /\ exports' = exports + export_calls(end_session_ret(sessions, session_id))
    /\ mainpc' = "done"
    /\ UNCHANGED <<restVars, now, lastCall, calls, session_id, connected, conversation_active,
                   is_speaking, interrupt_requested, conversation_history, pc,
                   running, local, frames, turn>>

\* _on_participant_connected: starts the welcome utterance.
OnParticipantConnected ==
    /\ mainpc # "init"
    /\ connected
    /\ running = NoTask
    /\ pc[Welcome] = "idle"
    /\ pc' = [pc EXCEPT ![Welcome] = "speak"]
    /\ local' = [local EXCEPT ![Welcome].text = WelcomeText]
    /\ turn' = [turn EXCEPT ![Welcome] = FreshTurn]
    /\ running' = Welcome
    /\ UNCHANGED <<restVars, now, collectorVars, session_id, connected, conversation_active,
                   is_speaking, interrupt_requested, conversation_history, mainpc,
                   frames, exports>>

OnParticipantDisconnected ==
    /\ mainpc # "init"
    /\ running = NoTask
    /\ conversation_active
    /\ conversation_active' = FALSE
    /\ UNCHANGED <<restVars, now, collectorVars, session_id, connected, is_speaking,
                   interrupt_requested, conversation_history, mainpc, pc, running,
                   local, frames, exports, turn>>

\* _on_track_subscribed for an audio track: create_task(_process_audio_stream).
OnTrackSubscribed(t) ==
    /\ mainpc # "init"
    /\ connected
    /\ running = NoTask
    /\ pc[t] = "off"
    /\ pc' = [pc EXCEPT ![t] = "listen"]
    /\ UNCHANGED <<restVars, now, collectorVars, session_id, connected, conversation_active,
                   is_speaking, interrupt_requested, conversation_history, mainpc,
                   running, local, frames, exports, turn>>

\* One iteration of the frame loop of _process_audio_stream up to the await of
\* transcribe_audio.  Every utterance in synthesis while the agent is speaking
\* is marked as the one the frame interrupts.
AudioFrame(t) ==
    /\ pc[t] = "listen"
    /\ running = NoTask
    /\ connected
    /\ frames < MaxFrames
    /\ frames' = frames + 1
    /\ conversation_active' = TRUE
    /\ interrupt_requested' = IF is_speaking THEN TRUE ELSE interrupt_requested
    /\ local' = [local EXCEPT ![t].eou_start_time = now]
    /\ pc' = [pc EXCEPT ![t] = "stt"]
    /\ turn' = [u \in Speakers |->
                  IF u = t THEN [FreshTurn EXCEPT !.after_failure = Failed(turn[t])]
                  ELSE IF pc[u] = "tts" /\ is_speaking
                       THEN [turn[u] EXCEPT !.abandoned = TRUE]
                       ELSE turn[u]]
    /\ UNCHANGED <<restVars, now, collectorVars, session_id, connected, is_speaking,
                   conversation_history, mainpc, running, exports>>

\* transcribe_audio returns; _process_audio_frame records the EOU delay for a
\* non-blank transcript and enters _process_conversation.
STTResult(t, raw) ==
    /\ pc[t] = "stt"
    /\ running = NoTask
    /\ LET transcript == transcribe_audio(raw)
       IN  IF Truthy(transcript) /\ Truthy(Strip(transcript))
           THEN /\ sessions' = record_eou_delay(sessions, session_id,
                                                Sample(local[t].eou_start_time))
                /\ local' = [local EXCEPT ![t].transcript = transcript]
                /\ pc' = [pc EXCEPT ![t] = "conv"]
                /\ running' = t
                /\ turn' = [turn EXCEPT ![t].heard = TRUE,
                                        ![t].stt = IF IsBlank(raw) THEN "blank" ELSE "text",
                                        ![t].d = AddDelta(@, Delta(sessions, sessions', session_id))]
           ELSE /\ pc' = [pc EXCEPT ![t] = "listen"]
                /\ running' = NoTask
                /\ local' = [local EXCEPT ![t] = FreshLocal]
                /\ turn' = [turn EXCEPT ![t].stt = IF IsBlank(raw) THEN "blank" ELSE "text"]
                /\ UNCHANGED sessions
    /\ UNCHANGED <<restVars, now, returned, lastCall, calls, session_id, connected,
                   conversation_active, is_speaking, interrupt_requested,
                   conversation_history, mainpc, frames, exports>>

\* _process_conversation: take the TTFT start time and issue the (blocking)
\* generation call.
CallLLM(t) ==
    /\ pc[t] = "conv"
    /\ running = t
    /\ local' = [local EXCEPT ![t].ttft_start_time = now]
    /\ pc' = [pc EXCEPT ![t] = "llm"]
    /\ UNCHANGED <<restVars, now, collectorVars, session_id, connected, conversation_active,
                   is_speaking, interrupt_requested, conversation_history, mainpc,
                   running, frames, exports, turn>>

\* generate_response returns; a truthy response records TTFT and goes on to
\* _generate_and_send_audio.
LLMResult(t, api) ==
    /\ pc[t] = "llm"
    /\ running = t
    /\ LET r == generate_response(conversation_history, local[t].transcript, api)
       IN  /\ conversation_history' = r.history
           /\ IF Truthy(r.ret)
              THEN /\ sessions' = record_ttft(sessions, session_id,
                                              Sample(local[t].ttft_start_time))
                   /\ local' = [local EXCEPT ![t].text = r.ret]
                   /\ pc' = [pc EXCEPT ![t] = "speak"]
                   /\ running' = t
              ELSE /\ pc' = [pc EXCEPT ![t] = "listen"]
                   /\ running' = NoTask
                   /\ local' = [local EXCEPT ![t] = FreshLocal]
                   /\ UNCHANGED sessions
    /\ turn' = [turn EXCEPT ![t].llm = api,
                            ![t].d = AddDelta(@, Delta(sessions, sessions', session_id))]
    /\ UNCHANGED <<restVars, now, returned, lastCall, calls, session_id, connected,
                   conversation_active, is_speaking, interrupt_requested, mainpc,
                   frames, exports>>

\* _generate_and_send_audio up to the await of generate_audio.
BeginSpeak(t) ==
    /\ pc[t] = "speak"
    /\ running = t
    /\ local' = [local EXCEPT ![t].ttfb_start_time = now]
    /\ is_speaking' = TRUE
    /\ interrupt_requested' = FALSE
    /\ pc' = [pc EXCEPT ![t] = "tts"]
    /\ running' = NoTask
    /\ UNCHANGED <<restVars, now, collectorVars, session_id, connected, conversation_active,
                   conversation_history, mainpc, frames, exports, turn>>

\* is_speaking when _generate_and_send_audio is left: the finally clause clears
\* it whatever generate_audio returned.
is_speaking_cleared_on_audio(audio_data) == ~Truthy(audio_data)

is_speaking_finally(audio_data) == FALSE

\* generate_audio returns: audio records TTFB and then the total latency (both
\* time stamps of the total are taken in this same step); the finally clause
\* clears is_speaking.
TTSResult(t, out) ==
    /\ pc[t] = "tts"
    /\ running = NoTask
    /\ LET audio_data == generate_audio(out)
       IN  IF Truthy(audio_data)
           THEN LET ttfb == Sample(local[t].ttfb_start_time)
                    total_latency_start == now
                    total_latency == Sample(total_latency_start)
                IN  sessions' = record_total_latency(
                                    record_ttfb(sessions, session_id, ttfb),
                                    session_id, total_latency)
           ELSE sessions' = sessions
    /\ is_speaking' = is_speaking_finally(generate_audio(out))
    /\ local' = [local EXCEPT ![t] = FreshLocal]
    /\ pc' = [pc EXCEPT ![t] = IF t = Welcome THEN "done" ELSE "listen"]
    /\ turn' = [turn EXCEPT ![t].tts = out,
                            ![t].d = AddDelta(@, Delta(sessions, sessions', session_id))]
    /\ UNCHANGED <<restVars, now, returned, lastCall, calls, session_id, connected,
                   conversation_active, interrupt_requested, conversation_history,
                   mainpc, running, frames, exports>>

Next ==
    \/ Tick
    \/ RoomDisconnected
    \/ Start
    \/ CleanupSession
    \/ OnParticipantConnected
    \/ OnParticipantDisconnected
    \/ \E t \in StreamTasks : OnTrackSubscribed(t)
    \/ \E t \in StreamTasks : AudioFrame(t)
    \/ \E t \in StreamTasks, raw \in RawTranscripts : STTResult(t, raw)
    \/ \E t \in StreamTasks : CallLLM(t)
    \/ \E t \in StreamTasks, api \in LLMOutcomes : LLMResult(t, api)
    \/ \E t \in Speakers : BeginSpeak(t)
    \/ \E t \in Speakers, out \in TTSOutcomes : TTSResult(t, out)

Spec == Init /\ [][Next]_vars

\* What the event loop and the code's own timeouts guarantee: a coroutine that
\* is ready to run is run (start, the cleanup after the wait loop has seen the
\* room disconnected, the steps of a turn up to its next external call), and
\* transcribe_audio returns within its wait_for timeout.  Nothing bounds the
\* generation call or the synthesis call, and nothing obliges the transport to
\* deliver another event.
Fairness ==
    /\ WF_vars(Start)
    /\ WF_vars(CleanupSession)
    /\ \A t \in StreamTasks : WF_vars(\E raw \in RawTranscripts : STTResult(t, raw))
    /\ \A t \in StreamTasks : WF_vars(CallLLM(t))
    /\ \A t \in Speakers : WF_vars(BeginSpeak(t))

SpecFair == Spec /\ Fairness

(* ------------------ several jobs of one worker: main.py ----------------- *)
\* entrypoint creates a VoiceAgent for the job and awaits agent.start(ctx),
\* which derives the session id from the clock, in whole seconds.
JobStart(a) ==
    /\ agents[a].st = "new"
    /\ agents' = [agents EXCEPT ![a] = [st |-> "started", session_id |-> now]]
    /\ UNCHANGED <<now, collectorVars, agentVars, samples, report, recorded, stt_service>>

\* The job's room disconnects: its session is ended and reported.
JobEnd(a) ==
    /\ agents[a].st = "started"
    /\ agents' = [agents EXCEPT ![a].st = "ended"]
    /\ UNCHANGED <<now, collectorVars, agentVars, samples, report, recorded, stt_service>>

NextJobs ==
    \/ Tick
    \/ \E a \in Agents : JobStart(a)
    \/ \E a \in Agents : JobEnd(a)

SpecJobs == Init /\ [][NextJobs]_vars

(* --------------- MetricsCollector driven through its API --------------- *)
\* A client of MetricsCollector (such as test_components.py) calling the
\* public methods with any id and any sample value.
RecordOps == {"record_eou_delay", "record_ttft", "record_ttfb",
              "record_total_latency", "record_interruption"}

Call(op, id, ret) ==
    /\ calls < MaxCalls
    /\ calls' = calls + 1
    /\ lastCall' = [op |-> op, id |-> id, ret |-> ret]
    /\ UNCHANGED <<restVars, now, agentVars>>

ClientStartSession(id) ==
    /\ Call("start_session", id, start_session_ret(sessions, id))
    /\ sessions' = start_session(sessions, id, now)
    /\ returned' = [x \in (DOMAIN returned) \ {id} |-> returned[x]]

ClientEndSession(id) ==
    /\ Call("end_session", id, end_session_ret(sessions, id))
    /\ sessions' = end_session(sessions, id, now)
    /\ returned' = IF end_session_ret(sessions, id) = "Session"
                   THEN [x \in (DOMAIN returned) \cup {id} |->
                            IF x = id THEN sessions'[id] ELSE returned[x]]
                   ELSE returned

ClientRecordEou(id, v) ==
    /\ Call("record_eou_delay", id, "None")
    /\ sessions' = record_eou_delay(sessions, id, v)
    /\ UNCHANGED returned

ClientRecordTtft(id, v) ==
    /\ Call("record_ttft", id, "None")
    /\ sessions' = record_ttft(sessions, id, v)
    /\ UNCHANGED returned

ClientRecordTtfb(id, v) ==
    /\ Call("record_ttfb", id, "None")
    /\ sessions' = record_ttfb(sessions, id, v)
    /\ UNCHANGED returned

ClientRecordTotal(id, v) ==
    /\ Call("record_total_latency", id, "None")
    /\ sessions' = record_total_latency(sessions, id, v)
    /\ UNCHANGED returned

ClientRecordInterruption(id) ==
    /\ Call("record_interruption", id, "None")
    /\ sessions' = record_interruption(sessions, id)
    /\ UNCHANGED returned

NextMC ==
    \/ Tick
    \/ \E id \in SessionIds : ClientStartSession(id)
    \/ \E id \in SessionIds : ClientEndSession(id)
    \/ \E id \in SessionIds, v \in SampleValues : ClientRecordEou(id, v)
    \/ \E id \in SessionIds, v \in SampleValues : ClientRecordTtft(id, v)
    \/ \E id \in SessionIds, v \in SampleValues : ClientRecordTtfb(id, v)
    \/ \E id \in SessionIds, v \in SampleValues : ClientRecordTotal(id, v)
    \/ \E id \in SessionIds : ClientRecordInterruption(id)

SpecMC == Init /\ [][NextMC]_vars

(* ------------------- floating-point arithmetic ------------------------- *)
\* A Python float is a binary floating-point number, rounded to nearest with
\* ties to even after every operation.  Here it is [m, e], standing for
\* m * 2^e, with a significand of MantissaBits bits (Python: 53); zero is
\* [0, 0].  Only non-negative numbers occur.
Zero == [m |-> 0, e |-> 0]

\* The float nearest to (n / d) * 2^e.
RECURSIVE Round(_, _, _)
Round(n, d, e) ==
    IF n = 0 THEN Zero
    ELSE IF n >= d * 2^MantissaBits THEN Round(n, 2 * d, e + 1)
    ELSE IF n < d * 2^(MantissaBits - 1) THEN Round(2 * n, d, e - 1)
    ELSE LET q == n \div d
             r == n % d
             m == IF 2 * r > d \/ (2 * r = d /\ q % 2 = 1) THEN q + 1 ELSE q
         IN  IF m = 2^MantissaBits
             THEN [m |-> 2^(MantissaBits - 1), e |-> e + 1]
             ELSE [m |-> m, e |-> e]

MinInt(a, b) == IF a <= b THEN a ELSE b

\* The integer x / 2^e, for e no larger than the exponent of x.
Scaled(x, e) == x.m * 2^(x.e - e)

Float(k) == Round(k, 1, 0)                       \* float(k) of an int
Add(x, y) == LET e == MinInt(x.e, y.e) IN Round(Scaled(x, e) + Scaled(y, e), 1, e)
Sub(x, y) == LET e == MinInt(x.e, y.e) IN Round(Scaled(x, e) - Scaled(y, e), 1, e)
Mul(x, y) == Round(x.m * y.m, 1, x.e + y.e)
Div(x, y) == Round(x.m, y.m, x.e - y.e)
IntDiv(a, b) == Round(a, b, 0)                   \* a / b of two ints
Leq(x, y) == LET e == MinInt(x.e, y.e) IN Scaled(x, e) <= Scaled(y, e)
int(x) == IF x.e >= 0 THEN x.m * 2^x.e ELSE x.m \div 2^(-x.e)   \* int(x)

(* ------------------ statistics: metrics.py, excel_logger.py ------------- *)
\* sum(l): the additions from left to right, starting from the int 0.
RECURSIVE sum(_)
sum(l) == IF Len(l) = 0 THEN Zero
          ELSE IF Len(l) = 1 THEN l[1]
          ELSE Add(sum(SubSeq(l, 1, Len(l) - 1)), l[Len(l)])

RECURSIVE max(_)
max(l) == IF Len(l) = 1 THEN l[1]
          ELSE LET rest == max(Tail(l)) IN IF Leq(rest, l[1]) THEN l[1] ELSE rest

RECURSIVE min(_)
min(l) == IF Len(l) = 1 THEN l[1]
          ELSE LET rest == min(Tail(l)) IN IF Leq(l[1], rest) THEN l[1] ELSE rest

\* SessionMetrics.get_averages, get_max_values, get_min_values, for one of
\* the four sequences.
get_averages(l) == IF Len(l) > 0 THEN Div(sum(l), Float(Len(l))) ELSE Zero

get_max_values(l) == IF Len(l) > 0 THEN max(l) ELSE Zero

get_min_values(l) == IF Len(l) > 0 THEN min(l) ELSE Zero

\* sorted(l), ascending.
RECURSIVE Insert(_, _)
Insert(x, l) == IF Len(l) = 0 THEN <<x>>
                ELSE IF Leq(x, l[1]) THEN <<x>> \o l
                ELSE <<l[1]>> \o Insert(x, Tail(l))

RECURSIVE sorted(_)
sorted(l) == IF Len(l) = 0 THEN <<>> ELSE Insert(l[1], sorted(Tail(l)))

\* ExcelLogger._percentile; sorted_list is indexed from 0 in the source and
\* from 1 here.
percentile_swapped(sorted_list, p) ==
    IF Len(sorted_list) = 0 THEN Zero
    ELSE LET index == Mul(IntDiv(p, 100), Float(Len(sorted_list) - 1))
             lower_index == int(index)
             upper_index == MinInt(lower_index + 1, Len(sorted_list) - 1)
         IN  IF lower_index = upper_index THEN sorted_list[lower_index + 1]
             ELSE LET weight == Sub(index, Float(lower_index))
                  IN  Add(Mul(sorted_list[lower_index + 1], weight),
                          Mul(sorted_list[upper_index + 1], Sub(Float(1), weight)))

percentile(sorted_list, p) ==
    IF Len(sorted_list) = 0 THEN Zero
    ELSE LET index == Mul(IntDiv(p, 100), Float(Len(sorted_list) - 1))
             lower_index == int(index)
             upper_index == MinInt(lower_index + 1, Len(sorted_list) - 1)
         IN  IF lower_index = upper_index THEN sorted_list[lower_index + 1]
             ELSE LET weight == Sub(index, Float(lower_index))
                  IN  Add(Mul(sorted_list[lower_index + 1], Sub(Float(1), weight)),
                          Mul(sorted_list[upper_index + 1], weight))

\* Timing samples, in tenths of a second as written in decimal, and the
\* percentiles asked for.
SampleTenths == {1, 7, 10, 18, 20, 30}
SampleFloats == {IntDiv(k, 10) : k \in SampleTenths}
Percentiles == 0..100

RECURSIVE SeqsUpTo(_)
SeqsUpTo(n) ==
    IF n = 0 THEN {<<>>}
    ELSE LET shorter == SeqsUpTo(n - 1)
         IN  shorter \cup {Append(l, x) : l \in {k \in shorter : Len(k) = n - 1},
                                           x \in SampleFloats}

InitStats ==
    /\ InitAgent
    /\ samples \in SeqsUpTo(MaxLen)
    /\ report = NoReport

\* The per-metric statistics of the session summary; the report of a session
\* is computed once.
Summarize ==
    /\ report = NoReport
    /\ report' = [kind |-> "summary",
                  avg |-> get_averages(samples),
                  max |-> get_max_values(samples),
                  min |-> get_min_values(samples)]
    /\ UNCHANGED <<now, collectorVars, agentVars, agents, samples, recorded, stt_service>>

\* One rung of the percentile ladder of the performance analysis.
Percentile(p) ==
    /\ report = NoReport
    /\ report' = [kind |-> "percentile", p |-> p,
                  value |-> percentile(sorted(samples), p)]
    /\ UNCHANGED <<now, collectorVars, agentVars, agents, samples, recorded, stt_service>>

NextStats ==
    \/ Summarize
    \/ \E p \in Percentiles : Percentile(p)

SpecStats == InitStats /\ [][NextStats]_vars

(* ------------- the report of a session: excel_logger.py, metrics.py ----- *)
\* Config.TARGET_LATENCY, in seconds.
TARGET_LATENCY == Float(2)

\* len([l for l in latencies if l > limit])
CountAbove(latencies, limit) ==
    Cardinality({i \in 1..Len(latencies) : ~Leq(latencies[i], limit)})

\* ExcelLogger._calculate_performance_rating
calculate_performance_rating_strict(avg_latency) ==
    IF ~Leq(Float(1), avg_latency) THEN "Excellent"
    ELSE IF ~Leq(IntDiv(3, 2), avg_latency) THEN "Good"
    ELSE IF ~Leq(Float(2), avg_latency) THEN "Acceptable"
    ELSE "Needs Improvement"

calculate_performance_rating(avg_latency) ==
    IF Leq(avg_latency, Float(1)) THEN "Excellent"
    ELSE IF Leq(avg_latency, IntDiv(3, 2)) THEN "Good"
    ELSE IF Leq(avg_latency, Float(2)) THEN "Acceptable"
    ELSE "Needs Improvement"

\* The 'Latency Target Violations' entry of the summary sheet.
sheet_violations(total_latencies) == CountAbove(total_latencies, TARGET_LATENCY)

\* The latency_target_violations entry of get_session_summary.
latency_target_violations(total_latencies) == CountAbove(total_latencies, Float(2))

\* The 'Poor Performance' count of the performance analysis.
poor_inclusive(latencies) ==
    Cardinality({i \in 1..Len(latencies) : Leq(Float(2), latencies[i])})

poor(latencies) == CountAbove(latencies, Float(2))

\* f"{a / b * 100:.1f}" of two ints 0 <= a <= b, as the number of tenths of a
\* percent it prints: a/b*100 rounded to one decimal, ties to even (the
\* rounding of the float quotient, 2^-53, is far below one tenth).
PercentTenths(a, b) ==
    LET q == (1000 * a) \div b
        r == (1000 * a) % b
    IN  IF 2 * r > b \/ (2 * r = b /\ q % 2 = 1) THEN q + 1 ELSE q

\* The 'Success Rate' entry of the performance analysis.
success_rate(latencies) == PercentTenths(Len(latencies) - poor(latencies), Len(latencies))

\* Average latencies around the rating boundaries: every float of [1/2, 4).
RatingFloats ==
    {[m |-> m, e |-> e] : m \in 2^(MantissaBits - 1)..(2^MantissaBits - 1),
                          e \in (-MantissaBits)..(2 - MantissaBits)}

InitReport ==
    /\ InitAgent
    /\ samples \in SeqsUpTo(MaxLen) \cup {<<x>> : x \in RatingFloats}
    /\ report = NoReport

\* _write_session_summary: the entries computed from total_latencies.
WriteSessionSummary ==
    /\ report = NoReport
    /\ report' = [kind |-> "sheet",
                  measurements |-> Len(samples),
                  avg |-> get_averages(samples),
                  violations |-> sheet_violations(samples),
                  rating |-> calculate_performance_rating(get_averages(samples))]
    /\ UNCHANGED <<now, collectorVars, agentVars, agents, samples, recorded, stt_service>>

\* _write_performance_analysis, for a session with latency data.
WritePerformanceAnalysis ==
    /\ report = NoReport
    /\ Len(samples) > 0
    /\ report' = [kind |-> "analysis",
                  measurements |-> Len(samples),
                  poor |-> poor(samples),
                  success_rate |-> success_rate(samples)]
    /\ UNCHANGED <<now, collectorVars, agentVars, agents, samples, recorded, stt_service>>

\* get_session_summary: the entries computed from total_latencies.
GetSessionSummary ==
    /\ report = NoReport
    /\ report' = [kind |-> "summary_dict",
                  measurements |-> Len(samples),
                  avg |-> get_averages(samples),
                  violations |-> latency_target_violations(samples)]
    /\ UNCHANGED <<now, collectorVars, agentVars, agents, samples, recorded, stt_service>>

NextReport ==
    \/ WriteSessionSummary
    \/ WritePerformanceAnalysis
    \/ GetSessionSummary

SpecReport == InitReport /\ [][NextReport]_vars

(* ---------- one session from start to its summary: metrics.py ----------- *)
\* MetricsCollector.get_session_summary at time t.  `end_time or time.time()`
\* takes the clock for a session that has not ended (the clock never reads
\* 0.0, the other falsy end_time).
get_session_summary(S, id, t) ==
    IF id \notin DOMAIN S THEN [kind |-> "None"]
    ELSE LET session == S[id]
         IN  [kind |-> "summary_dict",
              session_id |-> id,
              duration |-> (IF session.end_time # NoTime THEN session.end_time ELSE t)
                              - session.start_time,
              conversation_turns |-> session.conversation_turns,
              interruptions |-> session.interruptions,
              total_measurements |->
                  [eou_delays |-> Len(session.eou_delays),
                   ttft_times |-> Len(session.ttft_times),
                   ttfb_times |-> Len(session.ttfb_times),
                   total_latencies |-> Len(session.total_latencies)],
              avg_total_latency |-> get_averages(session.total_latencies),
              max_total_latency |-> get_max_values(session.total_latencies),
              min_total_latency |-> get_min_values(session.total_latencies),
              latency_target_violations |->
                  latency_target_violations(session.total_latencies)]

\* ExcelLogger._write_session_summary for the object end_session returned.
write_session_summary(session_metrics) ==
    [kind |-> "sheet",
     session_id |-> session_metrics.session_id,
     duration |-> (IF session_metrics.end_time # NoTime
                   THEN session_metrics.end_time ELSE 0) - session_metrics.start_time,
     conversation_turns |-> session_metrics.conversation_turns,
     interruptions |-> session_metrics.interruptions,
     total_measurements |->
         [eou_delays |-> Len(session_metrics.eou_delays),
          ttft_times |-> Len(session_metrics.ttft_times),
          ttfb_times |-> Len(session_metrics.ttfb_times),
          total_latencies |-> Len(session_metrics.total_latencies)],
     avg_total_latency |-> get_averages(session_metrics.total_latencies),
     latency_target_violations |-> sheet_violations(session_metrics.total_latencies),
     rating |-> calculate_performance_rating(
                    get_averages(session_metrics.total_latencies))]

\* The values of test_components.py and two more TOTAL values, at and above
\* the target.
EouSamples == {IntDiv(5, 10)}
TtftSamples == {IntDiv(8, 10)}
TtfbSamples == {IntDiv(12, 10)}
TotalSamples == {IntDiv(18, 10), Float(2), Float(3)}

Open(id) == id \in DOMAIN sessions /\ sessions[id].end_time = NoTime

RecordCalls ==
    Len(recorded.eou) + Len(recorded.ttft) + Len(recorded.ttfb) + Len(recorded.total)

SessionStart(id) ==
    /\ DOMAIN sessions = {}
    /\ sessions' = start_session(sessions, id, now)
    /\ UNCHANGED <<now, returned, lastCall, calls, agentVars, restVars>>

SessionRecord(id) ==
    /\ Open(id)
    /\ RecordCalls < MaxRecords
    /\ \/ \E v \in EouSamples :
             /\ sessions' = record_eou_delay(sessions, id, v)
             /\ recorded' = [recorded EXCEPT !.eou = Append(@, v)]
       \/ \E v \in TtftSamples :
             /\ sessions' = record_ttft(sessions, id, v)
             /\ recorded' = [recorded EXCEPT !.ttft = Append(@, v)]
       \/ \E v \in TtfbSamples :
             /\ sessions' = record_ttfb(sessions, id, v)
             /\ recorded' = [recorded EXCEPT !.ttfb = Append(@, v)]
       \/ \E v \in TotalSamples :
             /\ sessions' = record_total_latency(sessions, id, v)
             /\ recorded' = [recorded EXCEPT !.total = Append(@, v)]
    /\ UNCHANGED <<now, returned, lastCall, calls, agentVars, agents, samples, report, stt_service>>

SessionEnd(id) ==
    /\ Open(id)
    /\ sessions' = end_session(sessions, id, now)
    /\ returned' = [x \in (DOMAIN returned) \cup {id} |->
                      IF x = id THEN sessions'[id] ELSE returned[x]]
    /\ UNCHANGED <<now, lastCall, calls, agentVars, restVars>>

\* The summary of the ended session: get_session_summary, or the summary sheet
\* of the export.
SessionSummary(id) ==
    /\ id \in DOMAIN returned
    /\ report = NoReport
    /\ \/ report' = get_session_summary(sessions, id, now)
       \/ report' = write_session_summary(returned[id])
    /\ UNCHANGED <<now, collectorVars, agentVars, agents, samples, recorded, stt_service>>

NextSession ==
    \/ Tick
    \/ \E id \in SessionIds : SessionStart(id)
    \/ \E id \in SessionIds : SessionRecord(id)
    \/ \E id \in SessionIds : SessionEnd(id)
    \/ \E id \in SessionIds : SessionSummary(id)

SpecSession == Init /\ [][NextSession]_vars

(* ------------- transcription requests: services/stt_service.py --------- *)
\* Texts a transcript event can carry.
TranscriptTexts == {<<"h", "i">>, <<" ">>}

Waiting == {r \in Requests : stt_service.req[r] = "waiting"}

\* transcribe_audio up to its await: the audio is sent and the polling of
\* _get_transcription_result starts.  Each stream task has at most one call in
\* flight; requests are numbered in the order they are sent.
TranscribeAudio(r) ==
    /\ stt_service.req[r] = "new"
    /\ \A q \in Requests : q < r => stt_service.req[q] # "new"
    /\ Cardinality(Waiting) < MaxStreams
    /\ stt_service' = [stt_service EXCEPT !.req[r] = "waiting", !.waited[r] = 0]
    /\ UNCHANGED <<now, collectorVars, agentVars, agents, samples, report, recorded>>

\* _on_transcript: the event for the audio of request r is stored in
\* latest_transcript, whatever is stored there and whether or not the call
\* that sent the audio is still waiting.
OnTranscript(r, text) ==
    /\ stt_service.req[r] # "new"
    /\ r \notin stt_service.delivered
    /\ stt_service' =
          [stt_service EXCEPT
              !.latest_transcript = [of |-> r, text |-> text],
              !.delivered = @ \cup {r},
              !.overwritten =
                  IF Truthy(Strip(stt_service.latest_transcript.text))
                  THEN @ \cup {stt_service.latest_transcript.of} ELSE @]
    /\ UNCHANGED <<now, collectorVars, agentVars, agents, samples, report, recorded>>

\* One iteration of the polling loop of _get_transcription_result run for the
\* call r: a stored transcript is taken and cleared, and returned when its text
\* is not blank; otherwise the call sleeps for one poll interval.
GetTranscriptionResult(r) ==
    /\ stt_service.req[r] = "waiting"
    /\ stt_service.waited[r] < MaxPolls
    /\ LET transcript_data == stt_service.latest_transcript
       IN  IF transcript_data.of # 0
           THEN IF Truthy(transcript_data.text) /\ Truthy(Strip(transcript_data.text))
                THEN stt_service' =
                       [stt_service EXCEPT
                           !.latest_transcript = NoTranscript,
                           !.req[r] = "returned",
                           !.result[r] = [of |-> transcript_data.of,
                                          text |-> Strip(transcript_data.text)]]
                ELSE stt_service' =
                       [stt_service EXCEPT
                           !.latest_transcript = NoTranscript,
                           !.waited[r] = @ + 1]
           ELSE stt_service' = [stt_service EXCEPT !.waited[r] = @ + 1]
    /\ UNCHANGED <<now, collectorVars, agentVars, agents, samples, report, recorded>>

\* The polling loop runs out (or wait_for times out): the call returns None.
TranscribeTimeout(r) ==
    /\ stt_service.req[r] = "waiting"
    /\ stt_service.waited[r] = MaxPolls
    /\ stt_service' = [stt_service EXCEPT !.req[r] = "timeout"]
    /\ UNCHANGED <<now, collectorVars, agentVars, agents, samples, report, recorded>>

NextSTT ==
    \/ \E r \in Requests : TranscribeAudio(r)
    \/ \E r \in Requests, text \in TranscriptTexts : OnTranscript(r, text)
    \/ \E r \in Requests : GetTranscriptionResult(r)
    \/ \E r \in Requests : TranscribeTimeout(r)

SpecSTT == Init /\ [][NextSTT]_vars

(* ------------------------------ claims --------------------------------- *)
Registered == session_id \in DOMAIN sessions

FrameObserved == \E t \in StreamTasks : pc[t] = "listen" /\ pc'[t] = "stt"

\* C1: a step changes `interruptions` of the agent's session exactly when it
\* is an audio frame observed while is_speaking, and then by exactly 1.
C1_InterruptionCounted ==
    [][Registered =>
         sessions'[session_id].interruptions =
             sessions[session_id].interruptions
               + (IF FrameObserved /\ is_speaking THEN 1 ELSE 0)]_vars

\* C2: an utterance that a frame interrupted while it was being synthesized
\* adds no TOTAL sample when its synthesis result arrives.
C2_AbandonedNotRecorded ==
    \A t \in Speakers : turn[t].abandoned => turn[t].d.total = 0

TurnOver(t) == pc[t] = "listen"

FullTurn(t) ==
    /\ TurnOver(t)
    /\ turn[t].heard
    /\ turn[t].llm = "ok"
    /\ turn[t].tts = "audio"

\* C3: a turn with a non-blank transcript, a generated reply and synthesized
\* audio has added exactly one sample to each of the four sequences and
\* exactly 1 to conversation_turns.
C3_FullTurnSamples ==
    \A t \in StreamTasks :
        FullTurn(t) =>
            /\ turn[t].d.eou = 1
            /\ turn[t].d.ttft = 1
            /\ turn[t].d.ttfb = 1
            /\ turn[t].d.total = 1
            /\ turn[t].d.turns = 1

C3_Witness == \E t \in StreamTasks : FullTurn(t)

\* C4: the step in which generate_response returns adds 1 to
\* conversation_turns when the generation call delivered a reply and adds
\* nothing when the generation call raised.
C4_TurnsOnlyOnSuccess ==
    [][\A t \in StreamTasks :
          (pc[t] = "llm" /\ pc'[t] # "llm" /\ turn'[t].llm \in {"ok", "raise"}) =>
              sessions'[session_id].conversation_turns =
                  sessions[session_id].conversation_turns
                    + (IF turn'[t].llm = "ok" THEN 1 ELSE 0)]_vars

CallOf(op, id) == calls' = calls + 1 /\ lastCall'.op = op /\ lastCall'.id = id

\* C5: start_session for a registered id is rejected with DuplicateSession
\* and leaves the registered session as it was.
C5_DuplicateStartRejected ==
    [][\A id \in SessionIds :
          (CallOf("start_session", id) /\ id \in DOMAIN sessions) =>
              /\ lastCall'.ret = "DuplicateSession"
              /\ sessions' = sessions]_vars

\* C6: the first end_session of an id returns the session with end_time set
\* and removes it from the map; a second end_session of the id returns no
\* session and changes nothing.
C6_EndSessionTwice ==
    [][\A id \in SessionIds :
          CallOf("end_session", id) =>
              IF id \in DOMAIN returned
              THEN lastCall'.ret = "None" /\ sessions' = sessions
              ELSE id \in DOMAIN sessions =>
                     /\ lastCall'.ret = "Session"
                     /\ returned'[id].end_time = now
                     /\ id \notin DOMAIN sessions']_vars

\* C7: a record call for an id that was never started returns normally,
\* creates no entry and leaves every registered session unchanged.
C7_RecordUnknownIsNoop ==
    [][\A id \in SessionIds :
          (calls' = calls + 1 /\ lastCall'.op \in RecordOps /\ lastCall'.id = id
             /\ id \notin DOMAIN sessions) =>
              /\ sessions' = sessions
              /\ lastCall'.ret = "None"]_vars

C7_Witness ==
    /\ lastCall.op \in RecordOps
    /\ lastCall.id \notin DOMAIN sessions
    /\ \E other \in DOMAIN sessions : Len(sessions[other].eou_delays) > 0

Samples(m) ==
    <<m.eou_delays, m.ttft_times, m.ttfb_times, m.total_latencies,
      m.conversation_turns, m.interruptions>>

\* C8: the sample sequences and counters of the session object returned by
\* end_session stay as they were when it was returned.
C8_SnapshotFrozen ==
    \A id \in DOMAIN returned : Samples(sessions[id]) = Samples(returned[id])

\* C9: a turn whose synthesis call failed or returned no audio has still
\* recorded exactly one TOTAL sample.
C9_SynthesisFailureRecorded ==
    \A t \in StreamTasks :
        (TurnOver(t) /\ turn[t].tts \in {"fail", "nobytes"}) => turn[t].d.total = 1

\* C10: when the generation call raised, the turn goes on to synthesis with
\* the fallback utterance, and once synthesis returned audio the turn has
\* recorded exactly one TOTAL sample and the frame loop is back at its await.
C10_GenerationFailureFallback ==
    \A t \in StreamTasks :
        turn[t].llm = "raise" =>
            /\ pc[t] \in {"speak", "tts"} \/ (TurnOver(t) /\ turn[t].tts # "")
            /\ pc[t] \in {"speak", "tts"} => local[t].text = FallbackText
            /\ turn[t].tts = "audio" => TurnOver(t) /\ turn[t].d.total = 1

C10_Witness ==
    \E t \in StreamTasks :
        turn[t].llm = "raise" /\ turn[t].tts = "audio" /\ TurnOver(t)

\* C11: when transcription returns nothing, an empty text or only blanks, the
\* step that takes the result starts no turn: the frame loop is back at its
\* await, and the session, the conversation history and is_speaking are as
\* before.
C11_BlankTranscriptNoTurn ==
    [][\A t \in StreamTasks :
          (pc[t] = "stt" /\ pc'[t] # "stt" /\ turn'[t].stt = "blank") =>
              /\ pc'[t] = "listen"
              /\ running' = NoTask
              /\ sessions' = sessions
              /\ conversation_history' = conversation_history
              /\ is_speaking' = is_speaking]_vars

C11_Witness ==
    \E t \in StreamTasks : turn[t].stt = "blank" /\ pc[t] = "listen" /\ ~is_speaking

\* A turn of task u is under way: its transcript was accepted and it has
\* reached neither the end of its synthesis nor abandonment by an interruption.
TurnOpen(u) ==
    /\ pc[u] \in {"conv", "llm", "speak", "tts"}
    /\ ~turn[u].abandoned

\* C12: turns of one session are strictly sequential: no generation call is
\* pending for one turn while another turn of the session is still open.
C12_TurnsSequential ==
    \A t \in StreamTasks, u \in StreamTasks :
        (t # u /\ pc[t] = "llm") => ~TurnOpen(u)

\* C13: while the generation or synthesis call of a turn is pending, the frame
\* loop of the same stream can take the next frame the transport delivers.
C13_FramesNotStalled ==
    \A t \in StreamTasks :
        (pc[t] \in {"llm", "tts"} /\ connected /\ frames < MaxFrames) =>
            ENABLED AudioFrame(t)

NonEmptySnapshot(m) ==
    \/ Len(m.eou_delays) > 0
    \/ Len(m.ttft_times) > 0
    \/ Len(m.ttfb_times) > 0
    \/ Len(m.total_latencies) > 0

\* C14: export_session_metrics has been called exactly once for an ended
\* session whose snapshot holds samples, and never for a session that has not
\* ended; it is never called a second time.
C14_ExportOncePerEndedSession ==
    /\ (mainpc = "done" /\ session_id \in DOMAIN returned
            /\ NonEmptySnapshot(returned[session_id])) => exports = 1
    /\ mainpc # "done" => exports = 0
    /\ exports <= 1

C14_Witness ==
    /\ mainpc = "done"
    /\ session_id \in DOMAIN returned
    /\ NonEmptySnapshot(returned[session_id])
    /\ exports = 1

\* The participant_disconnected handler has run and no frame has arrived since.
ParticipantGone == frames > 0 /\ ~conversation_active

\* C15: once participant_disconnected has been handled, the session is
\* eventually ended (end_session called by the cleanup).
C15_DisconnectTearsDown == ParticipantGone ~> (mainpc = "done")

\* C16: a turn whose generation or synthesis call has been issued eventually
\* is back at listening, with is_speaking false and the frame loop at its await.
C16_TurnCompletes ==
    \A t \in StreamTasks :
        (pc[t] \in {"llm", "tts"}) ~> (pc[t] = "listen" /\ ~is_speaking)

\* The step of task t in which a capability's failure or empty result shows.
STTFails(t) == pc[t] = "stt" /\ pc'[t] # "stt" /\ turn'[t].stt = "blank"
LLMFails(t) ==
    pc[t] = "llm" /\ pc'[t] # "llm" /\ turn'[t].llm \in {"raise", "nochoices", "empty"}
TTSFails(t) == pc[t] = "tts" /\ pc'[t] # "tts" /\ turn'[t].tts \in {"fail", "nobytes"}

AllOnes(d) == d.eou = 1 /\ d.ttft = 1 /\ d.ttfb = 1 /\ d.total = 1 /\ d.turns = 1

C18_SessionIdsDistinct ==
    \A a \in Agents, b \in Agents :
        (a # b /\ agents[a].st # "new" /\ agents[b].st # "new") =>
            agents[a].session_id # agents[b].session_id

\* C19: for a non-empty sequence of samples the average lies between the
\* minimum and the maximum, and so does every percentile.
C19_WithinMinMax ==
    Len(samples) > 0 =>
        /\ report.kind = "summary" =>
               (Leq(report.min, report.avg) /\ Leq(report.avg, report.max))
        /\ report.kind = "percentile" =>
               /\ Leq(get_min_values(samples), report.value)
               /\ Leq(report.value, get_max_values(samples))

\* The distance of the float r from the exact linear interpolation of the
\* sorted sequence l at rank p/100 * (n - 1), in units of the largest sample
\* times 2^-MantissaBits (one rounding error), compared with the number of units
\* the roundings of the computation can add up to.
WithinRounding(l, p, r) ==
    LET n == Len(l)
        k == p * (n - 1)
        lower == k \div 100
        upper == MinInt(lower + 1, n - 1)
        frac == k % 100
        e == MinInt(MinInt(r.e, l[n].e), MinInt(l[lower + 1].e, l[upper + 1].e))
        exact100 == Scaled(l[lower + 1], e) * (100 - frac) + Scaled(l[upper + 1], e) * frac
        diff == 100 * Scaled(r, e) - exact100
        dist == IF diff >= 0 THEN diff ELSE -diff
    IN  dist * 2^MantissaBits <= (3 * n + 1) * 100 * Scaled(l[n], e)

\* C20: the percentile is the linear interpolation between the two order
\* statistics next to rank p/100 * (n - 1) of the sorted sequence, as computed
\* in floating point; P50 of [1, 2, 3] is 2 and of [1, 2] is 1.5; a sequence
\* of one sample gives that sample for every p.
C20_PercentileInterpolates ==
    (report.kind = "percentile" /\ Len(samples) > 0) =>
        /\ WithinRounding(sorted(samples), report.p, report.value)
        /\ (report.p = 50 /\ sorted(samples) = <<Float(1), Float(2), Float(3)>>) =>
               report.value = Float(2)
        /\ (report.p = 50 /\ sorted(samples) = <<Float(1), Float(2)>>) =>
               report.value = IntDiv(3, 2)
        /\ Len(samples) = 1 => report.value = samples[1]

C20_Witness ==
    /\ report.kind = "percentile"
    /\ report.p = 50
    /\ samples = <<Float(2), Float(1)>>
    /\ report.value = IntDiv(3, 2)

\* The float x is greater than the fraction a / b.
Above(x, a, b) ==
    LET e == MinInt(x.e, 0) IN Scaled(x, e) * b > a * 2^(-e)

\* The float next above a power of two 2^k.
NextAbove(k) == [m |-> 2^(MantissaBits - 1) + 1, e |-> k - (MantissaBits - 1)]

\* C21: the rating of an average latency is Excellent up to 1.0, Good above
\* 1.0 up to 1.5, Acceptable above 1.5 up to 2.0 and Needs Improvement above
\* 2.0; so 1.0 and 2.0 fall in the lower bucket and the least float above each
\* in the upper one.
C21_RatingBuckets ==
    report.kind = "sheet" =>
        LET avg == report.avg
        IN  /\ report.rating =
                   IF ~Above(avg, 1, 1) THEN "Excellent"
                   ELSE IF ~Above(avg, 3, 2) THEN "Good"
                   ELSE IF ~Above(avg, 2, 1) THEN "Acceptable"
                   ELSE "Needs Improvement"
            /\ avg = Float(1) => report.rating = "Excellent"
            /\ avg = NextAbove(0) => report.rating = "Good"
            /\ avg = Float(2) => report.rating = "Acceptable"
            /\ avg = NextAbove(1) => report.rating = "Needs Improvement"

C21_Witness ==
    /\ report.kind = "sheet"
    /\ report.avg = NextAbove(0)
    /\ report.rating = "Good"

\* The samples at or below the target latency, counted one by one.
RECURSIVE WithinTarget(_)
WithinTarget(l) ==
    IF Len(l) = 0 THEN 0
    ELSE WithinTarget(Tail(l)) + (IF Leq(l[1], TARGET_LATENCY) THEN 1 ELSE 0)

\* C22: the success rate reported is the fraction of TOTAL samples at or below
\* TARGET_LATENCY (to the tenth of a percent printed), and the violations
\* reported by the summary sheet and by get_session_summary are the samples
\* above it: the samples within the target and the violations add up to all.
C22_SuccessRateAndViolations ==
    Len(samples) > 0 =>
        /\ report.kind = "analysis" =>
               /\ report.success_rate = PercentTenths(WithinTarget(samples), Len(samples))
               /\ WithinTarget(samples) + report.poor = report.measurements
        /\ report.kind \in {"sheet", "summary_dict"} =>
               WithinTarget(samples) + report.violations = report.measurements

C22_Witness ==
    /\ report.kind = "analysis"
    /\ Len(samples) = 3
    /\ WithinTarget(samples) = 2
    /\ report.success_rate = 667
    /\ \E i \in 1..3 : samples[i] = TARGET_LATENCY

\* The sum of the floats of l as an integer, in units of 2^e.
RECURSIVE ExactSum(_, _)
ExactSum(l, e) == IF Len(l) = 0 THEN 0 ELSE Scaled(l[1], e) + ExactSum(Tail(l), e)

RECURSIVE MinExp(_)
MinExp(l) == IF Len(l) = 0 THEN 0 ELSE MinInt(l[1].e, MinExp(Tail(l)))

\* The float avg is the mean of the floats of l up to the roundings of the
\* additions and of the division: at most Len(l) + 1 rounding units of the
\* largest value.
IsMeanOf(avg, l) ==
    IF Len(l) = 0 THEN avg = Zero
    ELSE LET n == Len(l)
             e == MinInt(avg.e, MinExp(l))
             diff == n * Scaled(avg, e) - ExactSum(l, e)
             dist == IF diff >= 0 THEN diff ELSE -diff
         IN  dist * 2^MantissaBits <= n * (n + 1) * Scaled(max(l), e)

\* C23: the summary of a session that was started, took record calls and was
\* ended reports, per metric, as many measurements as record calls were made,
\* the duration end_time - start_time, the mean of the recorded TOTAL values as
\* average, and no violation when every TOTAL is at most 2.0; TOTAL = 1.8
\* alone gives the average 1.8, the rating Acceptable and no violation.
C23_SummaryOfSession ==
    report.kind \in {"summary_dict", "sheet"} =>
        LET id == report.session_id
        IN  /\ report.total_measurements =
                   [eou_delays |-> Len(recorded.eou), ttft_times |-> Len(recorded.ttft),
                    ttfb_times |-> Len(recorded.ttfb),
                    total_latencies |-> Len(recorded.total)]
            /\ report.duration = sessions[id].end_time - sessions[id].start_time
            /\ IsMeanOf(report.avg_total_latency, recorded.total)
            /\ (\A i \in 1..Len(recorded.total) : ~Above(recorded.total[i], 2, 1)) =>
                   report.latency_target_violations = 0
            /\ recorded.total = <<IntDiv(18, 10)>> =>
                   /\ report.avg_total_latency = IntDiv(18, 10)
                   /\ report.latency_target_violations = 0
                   /\ report.kind = "sheet" => report.rating = "Acceptable"

C23_Witness ==
    /\ report.kind = "sheet"
    /\ recorded = [eou |-> <<IntDiv(5, 10)>>, ttft |-> <<IntDiv(8, 10)>>,
                   ttfb |-> <<IntDiv(12, 10)>>, total |-> <<IntDiv(18, 10)>>]
    /\ report.total_measurements.ttfb_times = 1
    /\ report.rating = "Acceptable"
    /\ report.duration = 1

\* C24: the step that observes an audio frame while the agent is speaking
\* leaves the agent listening: is_speaking is false right after it.
C24_InterruptionStopsSpeaking ==
    [][(FrameObserved /\ is_speaking) => ~is_speaking']_vars

IsPrefix(a, b) == Len(a) <= Len(b) /\ SubSeq(b, 1, Len(a)) = a

\* C25: while a session is registered its four sample sequences only grow at
\* the end: what a sequence held before a step is a prefix of what it holds
\* after it.
C25_SequencesAppendOnly ==
    [][\A id \in SessionIds :
          (id \in DOMAIN sessions /\ id \in DOMAIN sessions') =>
              /\ IsPrefix(sessions[id].eou_delays, sessions'[id].eou_delays)
              /\ IsPrefix(sessions[id].ttft_times, sessions'[id].ttft_times)
              /\ IsPrefix(sessions[id].ttfb_times, sessions'[id].ttfb_times)
              /\ IsPrefix(sessions[id].total_latencies, sessions'[id].total_latencies)]_vars

\* The stream task has issued its generation call in its current utterance.
GenerationIssued(t) == pc[t] \in {"llm", "speak", "tts"} \/ turn[t].llm # ""

\* The task has issued its synthesis call in its current utterance.
SynthesisIssued(t) == pc[t] = "tts" \/ turn[t].tts # ""

\* C26: the stages of a turn are ordered.  A turn whose generation call is
\* issued has recorded its EOU sample; a turn records its TTFT sample only
\* once generation has returned a non-empty response, and its synthesis call
\* is issued only after that; TOTAL is never recorded without TTFB, and
\* neither is recorded unless synthesis has returned audio.
C26_StagesOrdered ==
    /\ \A t \in StreamTasks :
          /\ GenerationIssued(t) => turn[t].d.eou = 1
          /\ turn[t].d.ttft > 0 =>
                Truthy(generate_response(<<>>, <<>>, turn[t].llm).ret)
          /\ SynthesisIssued(t) =>
                /\ Truthy(generate_response(<<>>, <<>>, turn[t].llm).ret)
                /\ turn[t].d.ttft = 1
    /\ \A t \in Speakers :
          /\ turn[t].d.total <= turn[t].d.ttfb
          /\ turn[t].tts = "audio" => turn[t].d.ttfb = 1 /\ turn[t].d.total = 1
          /\ turn[t].tts # "audio" => turn[t].d.ttfb = 0 /\ turn[t].d.total = 0

C26_Witness ==
    \E t \in StreamTasks :
        /\ pc[t] = "listen"
        /\ turn[t].tts = "audio"
        /\ turn[t].d.eou = 1 /\ turn[t].d.ttft = 1
        /\ turn[t].d.ttfb = 1 /\ turn[t].d.total = 1

\* C27: every transcript a transcribe_audio call returns is the one its own
\* audio produced, no transcript is returned by two calls, and no transcript
\* with text is overwritten before a call has read it.
C27_OwnResultOnce ==
    /\ \A r \in Requests : stt_service.result[r].of \in {0, r}
    /\ \A r, q \in Requests :
          (stt_service.result[r].of # 0
             /\ stt_service.result[r].of = stt_service.result[q].of) => r = q
    /\ stt_service.overwritten = {}

\* C28: the welcome utterance takes the speaking path of a reply: as long as
\* its synthesis call is in flight, is_speaking is true.
C28_WelcomeSpeaking == pc[Welcome] = "tts" => is_speaking

\* C29: in every state of the collector, every registered session has as many
\* conversation turns as it has TTFT samples.
C29_TurnsMatchTtft ==
    \A id \in DOMAIN sessions :
        sessions[id].conversation_turns = Len(sessions[id].ttft_times)

C29_Witness ==
    \E id \in DOMAIN sessions :
        /\ Len(sessions[id].ttft_times) >= 2
        /\ sessions[id].conversation_turns = Len(sessions[id].ttft_times)
        /\ Len(sessions[id].eou_delays) >= 1

\* C30: in every state of the agent between two steps of the event loop, its
\* session holds as many TOTAL samples as TTFB samples and no more TTFT
\* samples than EOU samples.
C30_SamplesPaired ==
    Registered =>
        /\ Len(sessions[session_id].total_latencies) = Len(sessions[session_id].ttfb_times)
        /\ Len(sessions[session_id].ttft_times) <= Len(sessions[session_id].eou_delays)

C30_Witness ==
    /\ Registered
    /\ Len(sessions[session_id].eou_delays) = 2
    /\ Len(sessions[session_id].ttft_times) = 1
    /\ Len(sessions[session_id].ttfb_times) = 2
    /\ Len(sessions[session_id].total_latencies) = 2

\* C31: whenever a synthesis call of any utterance, the welcome or a reply, is
\* in flight, is_speaking is true.
C31_SpeakingWhileSynthesis ==
    (\E t \in Speakers : pc[t] = "tts") => is_speaking

Alternates(h) ==
    \A i \in 1..Len(h) : h[i].role = IF i % 2 = 1 THEN "user" ELSE "assistant"

\* C32: between generate_response calls the conversation history alternates
\* user and assistant entries, starting with a user entry and ending with an
\* assistant entry, and a fallback reply that a turn is about to speak is the
\* content of an entry of the history.
C32_HistoryAlternates ==
    /\ Alternates(conversation_history)
    /\ Len(conversation_history) % 2 = 0
    /\ \A t \in StreamTasks :
          (turn[t].llm = "raise" /\ pc[t] \in {"speak", "tts"}) =>
              \E i \in 1..Len(conversation_history) :
                  conversation_history[i].content = local[t].text

\* C33: once _cleanup_session has ended the session and exported it, no step
\* of a stream task changes that session: no sample is appended and no counter
\* changes.
C33_NothingAfterExport ==
    [][(mainpc = "done" /\ Registered /\ \E t \in StreamTasks : pc'[t] # pc[t]) =>
          sessions'[session_id] = sessions[session_id]]_vars

====
